---------------------------- MODULE Spec2Model ----------------------------
(***************************************************************************)
(* Step execution engine of renzokutai (src/config/step/runnable.rs).      *)
(*                                                                         *)
(* RunnableSteps::run is the supervisor: it scans the step set under read  *)
(* locks (unblocked_steps), spawns one task per available step into a      *)
(* JoinSet, awaits one completed task (join_next) and rescans.  A task is  *)
(* `step.write().await.run(&pzone).await`: it takes the step's write lock, *)
(* keeps it for the whole of InnerRunnableStep::run and releases it when   *)
(* run returns.  Tasks run on the runtime's worker threads, concurrently   *)
(* with the supervisor, so a spawned task takes its first step at any      *)
(* later time.                                                             *)
(*                                                                         *)
(* Three specifications share the module's variables:                      *)
(*   Spec, FairSpec  the supervisor and the step tasks;                    *)
(*   PumpSpec        one step's child, its two output pumps and select!;   *)
(*   CfgSpec         validation of a draft (config/step/mod.rs), save and  *)
(*                   load of the pipeline file (config/pipeline.rs) and    *)
(*                   the two callers of the engine.                        *)
(* Each leaves the variables of the other parts unchanged.                 *)
(***************************************************************************)
EXTENDS Integers, FiniteSets, Sequences, TLC

(* ------------------------------ bounds -------------------------------- *)

\* Number of steps of the step set (length of RunnableSteps.steps).
NSteps == 3

\* Most tasks of one step that are spawned and have not yet taken the
\* step's write lock; the supervisor's spawn waits while a step is at it.
MaxQueued == 2

\* pzone.exec refuses a task only while the JoinSet holds at most this many
\* tasks (spawned, running or completed and not yet joined).
MaxRefusedLen == 1

\* Most lines the child writes to one of its output streams.
MaxLines == 2

\* Number of distinct step names a draft can use.
NNames == 2

\* Most steps of a draft pipeline and of a pipeline file.
MaxDraftSteps == 2

\* Most dependencies of one step of a draft or of a pipeline file.
MaxDepends == 1

\* Most repos of a pipeline.
MaxRepos == 1

\* Most packages of a pipeline.
MaxPackages == 1

(* ------------------------------ the step set -------------------------- *)

StepIds == 1..NSteps

\* A step's name is modelled by its position: names are pairwise distinct.
Names == 1..NSteps

\* Exit codes of a child process; 1 stands for every non-zero code.
ExitCodes == {0, 1}

\* ValidatedStep: name and depends (script is the name's script).  The
\* order and multiplicity of depends do not matter to is_available, so
\* depends is a set of names.
ValidatedStep == [name : Names, depends : SUBSET Names]

\* Dependencies that point only to earlier steps: an acyclic step set.
IsForward(vec) == \A i \in StepIds : \A d \in vec[i].depends : d < i

\* Number of dependencies of vec that do not point to an earlier step.
BackEdges(vec) ==
    Cardinality({e \in StepIds \X Names : e[2] \in vec[e[1]].depends /\ e[2] >= e[1]})

\* Step sets that Steps::validate and ValidatedPipeline::load produce and
\* the engine is run on.  Of those, the family keeps the ones with distinct
\* names and every dependency naming a step; nothing restricts the relation
\* to be acyclic.  It holds every acyclic step set in topological order and
\* the step sets with one self-dependency or one back edge whose other
\* dependencies are a chain prefix.
ValidatedSteps ==
    {vec \in [StepIds -> ValidatedStep] :
        /\ \A i \in StepIds : vec[i].name = i
        /\ \/ IsForward(vec)
           \/ /\ BackEdges(vec) = 1
              /\ \A i \in StepIds : \A d \in vec[i].depends : d >= i \/ d = i - 1}

(* ------------------------------ child output -------------------------- *)

\* The child's piped output streams (zones.rs, PipelineZone::exec).
Streams == {"stdout", "stderr"}

\* A line that is not valid UTF-8: Lines::next_line returns Err on it.  The
\* other lines of a stream are numbered 1, 2, ... in the order written.
BadLine == 0

\* The step whose child and pumps are followed.
RunStep == 1

(* ------------------------------ configuration data -------------------- *)

\* Value::Unset; Value::Set(v) is v.
Unset == 0

\* The strings used as step names and as scripts.
DraftNames == 1..NNames

Scripts == {1}

SeqsUpTo(S, n) == UNION {[1..k -> S] : k \in 0..n}

\* Step: name, script, depends (a Dependency is its name).
Step ==
    [name : {Unset} \cup DraftNames,
     script : {Unset} \cup Scripts,
     depends : SeqsUpTo({Unset} \cup DraftNames, MaxDepends)]

\* Steps.vec of a draft pipeline.
Drafts == SeqsUpTo(Step, MaxDraftSteps)

\* ValidatedStep as it is stored and deserialized: name, script, depends
\* (a ValidatedDependency is its name).
StoredStep ==
    [name : DraftNames, script : Scripts, depends : SeqsUpTo(DraftNames, MaxDepends)]

\* ValidatedSteps.vec as it is stored and deserialized.
StoredSteps == SeqsUpTo(StoredStep, MaxDraftSteps)

\* Result<ValidatedSteps>, and "none" before the call.
NoResult == [kind |-> "none", vec |-> <<>>]

Err == [kind |-> "Err", vec |-> <<>>]

Ok(vec) == [kind |-> "Ok", vec |-> vec]

\* Ok(None) of ValidatedPipeline::load.
OkNone == [kind |-> "None", vec |-> <<>>]

\* No call of RunnableSteps::run yet; else the step set and the caller.
NoRun == [kind |-> "none", vec |-> <<>>, by |-> "none"]

\* One piece of the XML text of a pipeline file.
Token == [tag : {"pipeline", "/pipeline", "step", "script", "depend", "/step"},
          val : 0..NNames]

Tok(tag, val) == [tag |-> tag, val |-> val]

\* The strings used as repo urls, package names and package providers.
Urls == {1}

PackageNames == {1}

Providers == {1}

\* The name every pipeline here is created or stored with.
PipelineName == 1

\* Repo and Package of a draft pipeline.
Repo == [url : {Unset} \cup Urls]

Package == [provider : {Unset} \cup Providers, name : {Unset} \cup PackageNames]

\* Pipeline without its steps: name, repos, packages.
PipelineDrafts ==
    [name : {Unset, PipelineName},
     repos : SeqsUpTo(Repo, MaxRepos),
     packages : SeqsUpTo(Package, MaxPackages)]

\* Pipeline::new(name).
NewPipeline == [name |-> PipelineName, repos |-> <<>>, packages |-> <<>>]

\* Result<ValidatedPipeline>: "none" before the call, Err, or Ok with the
\* validated pipeline's fields.
NoPipeline ==
    [kind |-> "none", name |-> Unset, repos |-> <<>>, packages |-> <<>>, steps |-> <<>>]

ErrPipeline == [NoPipeline EXCEPT !.kind = "Err"]

\* The ValidatedPipelines a pipeline file can deserialize to.
StoredPipelines ==
    [kind : {"Ok"},
     name : {PipelineName},
     repos : SeqsUpTo([url : Urls], MaxRepos),
     packages : SeqsUpTo([provider : Providers, name : PackageNames], MaxPackages),
     steps : StoredSteps]

\* The process has not exited.
NotExited == -1

(* ------------------------------ provisioning data --------------------- *)

\* ValidatedPipeline::base_pzone and PipelineZone::get_run_pzone: the base
\* zone of the pipeline and the zone of a run.
Zones == {"base", "run"}

\* zone::State as cleanup distinguishes it, and "absent" for a zone that
\* zoneadm does not list.
ZoneStates == {"absent", "configured", "installed", "running"}

\* The calls of ValidatedPipeline::apply, in order: ensure_dataset_exists,
\* ensure_zone_exists (cleanup, ensure_nic_exists, configure, install, boot,
\* configure_zone_networking), install_packages, clone_repos, execute_steps,
\* halt_zone.
ApplyStages == <<"dataset", "cleanup", "nic", "configure", "install", "boot",
                 "networking", "packages", "repos", "steps", "halt">>

\* The calls of ValidatedPipeline::run, in order: create_zone_from_base
\* (ensure_nic_exists, configure, clone, boot), execute_steps, cleanup, delete.
RunStages == <<"nic", "configure", "clone", "boot", "steps", "cleanup", "delete">>

Stages(o) == IF o = "apply" THEN ApplyStages ELSE RunStages

\* apply works on the base zone, run on the run zone.
Target(o) == IF o = "apply" THEN "base" ELSE "run"

\* The number of invocations of apply and run that are followed.
MaxInvocations == 3

\* The number of strings generate_run_id draws from.
NRunIds == 2

\* The strings generate_run_id can return.
RunIds == 1..NRunIds

\* The id get_run_pzone gives every run zone ("a9skl10").
FixedRunId == 0

(* ------------------------------ cicfg session data -------------------- *)

\* Frame: the pipeline, or the ix-th element of its repos, packages or steps.
PipelineFrame == [ty |-> "pipeline", ix |-> 0]

\* The type words of select and add; "other" is any other identifier.
Types == {"package", "repo", "step", "other"}

\* The keys of set and of a filter; "other" is any other identifier.
Keys == {"name", "script", "depends", "url", "provider", "other"}

(* ------------------------------ state --------------------------------- *)

VARIABLES
    steps,      \* RunnableSteps.steps[i].step : the validated steps
    status,     \* RunnableSteps.steps[i].result.status
    proc,       \* "running" while a task holds step i's write lock and its
                \* child executes (the task waits in select!), else "none"
    queued,     \* tasks of step i in the JoinSet that have not yet taken the lock
    joinable,   \* results ("Ok" or "Err") of the completed tasks of the JoinSet
                \* that join_next has not yet returned, oldest first
    pc,         \* the supervisor's position in RunnableSteps::run
    idx,        \* the step the supervisor's scan reads next
    remaining,  \* unblocked_steps: remaining
    completed,  \* unblocked_steps: completed (names)
    available,  \* unblocked_steps: available
    started,    \* step i's script has been started (pzone.exec returned a child)
    outcome,    \* how the latest completed task of step i ended:
                \*   "none"     no task of the step has completed
                \*   "refused"  pzone.exec returned an error
                \*   "eof"      select! ended on end-of-file of stdout or stderr
                \*   "exit0"    select! ended on child.wait(), exit code 0
                \*   "exit1"    select! ended on child.wait(), non-zero exit code
    result,     \* what RunnableSteps::run returned: "none" until it returns
    joinedErr,  \* join_next has returned the result of a task that ended with Err
    \* one step's child and its output pumps (InnerRunnableStep::run, lines 53-80)
    pipe,       \* lines written to each stream that the reader has not read
    wrote,      \* every line the child has written to each stream
    sink,       \* the lines println! has forwarded for each stream
    open,       \* the child's end of each stream's pipe is open
    alive,      \* the child process has not exited
    ended,      \* the branch that completed select!: "none" while it is pending
    \* configuration and persistence (config/mod.rs, config/pipeline.rs)
    draft,      \* Pipeline.steps of the cicfg session: Steps.vec
    file,       \* the content of /etc/pipelines/<name>.xml
    validated,  \* the result of the latest Steps::validate
    loaded,     \* the result of the latest ValidatedPipeline::load
    runInput,   \* the step set the latest RunnableSteps::run was called on
    pipeline,   \* the cicfg session's Pipeline: name, repos, packages
    vpipeline,  \* the result of the latest Pipeline::validate
    stored,     \* a ValidatedPipeline the session was started from
    exitStatus, \* the exit status of the process, NotExited while it runs
    \* provisioning (config/pipeline.rs apply and run, zones.rs, dladm.rs, zfs.rs)
    dataset,    \* the pipeline's ZFS dataset exists
    vnic,       \* the VNIC of each zone exists
    zone,       \* the state zoneadm lists for each zone, "absent" if not listed
    execIn,     \* the zones execute_steps has been called on
    op,         \* the invocation in progress or last returned: "apply", "run"
    stage,      \* the position of the invocation in its sequence of calls
    ret,        \* what the invocation returned: "none" while it runs
    before,     \* vnic and zone as they were when the invocation started
    ends,       \* dataset, vnic and zone at the end of each apply that returned Ok
    calls,      \* the number of invocations made
    runIds,     \* the id of the run zone of each invocation of run, in order
    \* the cicfg session (config/mod.rs builder and CfgState)
    stack,      \* CfgState.stack: the frames, the pipeline's frame first
    repl,       \* "prompt" while builder loops, "returned" once it returned an
                \* Err, "panicked" once it panicked
    applied,    \* a commit of the session has called apply
    last        \* the latest command, the key of a set, and what came of it

engineVars == <<steps, status, proc, queued, joinable, pc, idx, remaining,
                completed, available, started, outcome, result, joinedErr>>

pumpVars == <<pipe, wrote, sink, open, alive, ended>>

valVars == <<pipeline, vpipeline, stored>>

provVars == <<dataset, vnic, zone, execIn, op, stage, ret, before, ends, calls,
              runIds>>

replVars == <<stack, repl, applied, last>>

hostVars == <<provVars, replVars>>

cfgVars == <<draft, file, validated, loaded, runInput, valVars, exitStatus, hostVars>>

vars == <<engineVars, pumpVars, cfgVars>>

supVars == <<pc, idx, remaining, completed, available>>

runVars == <<result, joinedErr>>

Statuses == {"Pending", "Running", "Failed", "Finished"}

Outcomes == {"none", "refused", "eof", "exit0", "exit1"}

TypeOK ==
    /\ steps \in ValidatedSteps
    /\ status \in [StepIds -> Statuses]
    /\ proc \in [StepIds -> {"none", "running"}]
    /\ queued \in [StepIds -> 0..MaxQueued]
    /\ joinable \in Seq({"Ok", "Err"})
    /\ pc \in {"remaining", "completed", "available", "spawn", "join", "returned",
              "exited"}
    /\ dataset \in BOOLEAN
    /\ vnic \in [Zones -> BOOLEAN]
    /\ zone \in [Zones -> ZoneStates]
    /\ execIn \subseteq Zones
    /\ op \in {"none", "apply", "run"}
    /\ op # "none" => stage \in 1..Len(Stages(op))
    /\ ret \in {"none", "Ok", "Err"}
    /\ calls \in 0..MaxInvocations
    /\ runIds \in Seq({FixedRunId} \cup RunIds)
    /\ Len(stack) \in 1..2 /\ stack[1] = PipelineFrame
    /\ repl \in {"prompt", "returned", "panicked"}
    /\ applied \in BOOLEAN
    /\ idx \in StepIds
    /\ remaining \subseteq StepIds
    /\ completed \subseteq Names
    /\ available \subseteq StepIds
    /\ started \in [StepIds -> BOOLEAN]
    /\ outcome \in [StepIds -> Outcomes]
    /\ result \in {"none", "Ok", "Err"}
    /\ joinedErr \in BOOLEAN
    /\ pipe \in [Streams -> SeqsUpTo(0..MaxLines, MaxLines)]
    /\ wrote \in [Streams -> SeqsUpTo(0..MaxLines, MaxLines)]
    /\ sink \in [Streams -> SeqsUpTo(1..MaxLines, MaxLines)]
    /\ open \in [Streams -> BOOLEAN]
    /\ alive \in BOOLEAN
    /\ ended \in {"none", "eof", "ioerr", "exit"}
    /\ draft \in Drafts
    /\ file.exists \in BOOLEAN
    /\ file.bytes \in Seq(Token)
    /\ validated \in {NoResult, Err} \cup {Ok(v) : v \in StoredSteps}
    /\ loaded \in {NoResult, Err, OkNone} \cup {Ok(v) : v \in StoredSteps}
    /\ runInput.kind \in {"none", "Ok"}
    /\ runInput.vec \in StoredSteps
    /\ runInput.by \in {"none", "commit", "pipelineadm"}
    /\ pipeline \in PipelineDrafts
    /\ vpipeline.kind \in {"none", "Ok", "Err"}
    /\ stored.kind \in {"none", "Ok", "Degraded"}
    /\ exitStatus \in {NotExited, 0, 1, 101}

\* StepResult::default(): status Pending; RunnableSteps::run starts with an
\* empty JoinSet and its first call of unblocked_steps.
RunStart ==
    /\ status = [i \in StepIds |-> "Pending"]
    /\ proc = [i \in StepIds |-> "none"]
    /\ queued = [i \in StepIds |-> 0]
    /\ joinable = <<>>
    /\ pc = "remaining"
    /\ idx = 1
    /\ remaining = {}
    /\ completed = {}
    /\ available = {}
    /\ started = [i \in StepIds |-> FALSE]
    /\ outcome = [i \in StepIds |-> "none"]
    /\ result = "none"
    /\ joinedErr = FALSE

EngineInit == steps \in ValidatedSteps /\ RunStart

\* The child after pzone.exec (lines 48-57): it runs, both pipes are open
\* and empty, nothing is forwarded and select! is pending.
PumpIdle ==
    /\ pipe = [s \in Streams |-> <<>>]
    /\ wrote = [s \in Streams |-> <<>>]
    /\ sink = [s \in Streams |-> <<>>]
    /\ open = [s \in Streams |-> TRUE]
    /\ alive = TRUE
    /\ ended = "none"

\* Pipeline::new: no step; no pipeline file; nothing validated, loaded or run.
ValIdle ==
    /\ pipeline = NewPipeline
    /\ vpipeline = NoPipeline
    /\ stored = NoPipeline

\* No invocation of apply or run has been made on a host without the
\* pipeline's dataset, VNICs or zones.
ProvIdle ==
    /\ dataset = FALSE
    /\ vnic = [z \in Zones |-> FALSE]
    /\ zone = [z \in Zones |-> "absent"]
    /\ execIn = {}
    /\ op = "none"
    /\ stage = 1
    /\ ret = "none"
    /\ before = [vnic |-> vnic, zone |-> zone]
    /\ ends = <<>>
    /\ calls = 0
    /\ runIds = <<>>

\* CfgState::new: the stack holds the pipeline's frame.
ReplIdle ==
    /\ stack = <<PipelineFrame>>
    /\ repl = "prompt"
    /\ applied = FALSE
    /\ last = [cmd |-> "none", key |-> "none", res |-> "none"]

HostIdle == ProvIdle /\ ReplIdle

CfgIdle ==
    /\ ValIdle
    /\ HostIdle
    /\ exitStatus = NotExited
    /\ draft = <<>>
    /\ file = [exists |-> FALSE, bytes |-> <<>>]
    /\ validated = NoResult
    /\ loaded = NoResult
    /\ runInput = NoRun

\* A step set without dependencies, before RunnableSteps::run scans it.
EngineIdle == steps = [i \in StepIds |-> [name |-> i, depends |-> {}]] /\ RunStart

Init == EngineInit /\ PumpIdle /\ CfgIdle

(* ------------------------------ locks --------------------------------- *)

\* A variant in which a task keeps the write guard after run has returned.
WriteLockedForGood(i) == proc[i] # "none" \/ outcome[i] # "none"

\* The step's RwLock is write-locked exactly while a task is inside
\* `step.write().await.run(..)`.
WriteLocked(i) == proc[i] # "none"

\* `s.read().await` returns once no task holds the write lock.
CanRead(i) == ~WriteLocked(i)

(* ------------------------------ readiness ----------------------------- *)

\* ValidatedStep::is_available: every dependency is in finished_steps.
StepIsAvailable(step, finished_steps) == step.depends \subseteq finished_steps

\* A variant of InnerRunnableStep::is_available that tests for Running.
IsAvailableWhenRunning(i, finished_steps) ==
    StepIsAvailable(steps[i], finished_steps) /\ status[i] = "Running"

\* InnerRunnableStep::is_available.
IsAvailable(i, finished_steps) ==
    StepIsAvailable(steps[i], finished_steps) /\ status[i] = "Pending"

Min(S) == CHOOSE x \in S : \A y \in S : x <= y

\* The scan's locals are dropped when unblocked_steps returns and the
\* drained vector is empty.
DropScan == idx' = 1 /\ remaining' = {} /\ completed' = {} /\ available' = {}

(* ------------------------------ supervisor ---------------------------- *)

\* unblocked_steps, first pass (lines 115-124): one read of step idx; the
\* steps that are Pending or Running remain.  After the last read an empty
\* `remaining` makes the result None.
ScanRemaining ==
    /\ pc = "remaining"
    /\ CanRead(idx)
    /\ LET rem == IF status[idx] \in {"Pending", "Running"}
                  THEN remaining \cup {idx} ELSE remaining
       IN  IF idx < NSteps
           THEN /\ remaining' = rem
                /\ idx' = idx + 1
                /\ UNCHANGED <<pc, completed, available>>
           ELSE IF rem = {}
                THEN pc' = "join" /\ DropScan
                ELSE /\ pc' = "completed"
                     /\ remaining' = rem
                     /\ idx' = 1
                     /\ UNCHANGED <<completed, available>>
    /\ UNCHANGED <<steps, status, proc, queued, joinable, started, outcome, runVars,
                   pumpVars, cfgVars>>

\* unblocked_steps, second pass (lines 129-138): one read of step idx; the
\* names of the Finished steps are collected.
ScanCompleted ==
    /\ pc = "completed"
    /\ CanRead(idx)
    /\ completed' = IF status[idx] = "Finished"
                    THEN completed \cup {steps[idx].name} ELSE completed
    /\ IF idx < NSteps
       THEN idx' = idx + 1 /\ pc' = pc
       ELSE idx' = Min(remaining) /\ pc' = "available"
    /\ UNCHANGED <<steps, status, proc, queued, joinable, remaining, available,
                   started, outcome, runVars, pumpVars, cfgVars>>

\* unblocked_steps, third pass (lines 140-152): one read of a remaining
\* step; after the last one an empty `available` makes the result None.
ScanAvailable ==
    /\ pc = "available"
    /\ CanRead(idx)
    /\ LET av == IF IsAvailable(idx, completed)
                 THEN available \cup {idx} ELSE available
           rest == {j \in remaining : j > idx}
       IN  IF rest # {}
           THEN /\ available' = av
                /\ idx' = Min(rest)
                /\ UNCHANGED <<pc, remaining, completed>>
           ELSE IF av = {}
                THEN pc' = "join" /\ DropScan
                ELSE /\ pc' = "spawn"
                     /\ available' = av
                     /\ UNCHANGED <<idx, remaining, completed>>
    /\ UNCHANGED <<steps, status, proc, queued, joinable, started, outcome, runVars,
                   pumpVars, cfgVars>>

\* A variant of lines 96-101 that spawns a task for the first step the scan
\* returned only.
SpawnFirst ==
    /\ pc = "spawn"
    /\ queued[Min(available)] < MaxQueued
    /\ queued' = [queued EXCEPT ![Min(available)] = @ + 1]
    /\ pc' = "join"
    /\ DropScan
    /\ UNCHANGED <<steps, status, proc, joinable, started, outcome, runVars,
                   pumpVars, cfgVars>>

\* run, lines 96-101: one task is spawned for every step the scan returned.
SpawnAll ==
    /\ pc = "spawn"
    /\ \A i \in available : queued[i] < MaxQueued
    /\ queued' = [i \in StepIds |-> IF i \in available THEN queued[i] + 1
                                    ELSE queued[i]]
    /\ pc' = "join"
    /\ DropScan
    /\ UNCHANGED <<steps, status, proc, joinable, started, outcome, runVars,
                   pumpVars, cfgVars>>

\* Number of tasks in the JoinSet.
JoinSetLen ==
    LET Sum[n \in 0..NSteps] ==
            IF n = 0 THEN 0
            ELSE Sum[n - 1] + queued[n] + (IF WriteLocked(n) THEN 1 ELSE 0)
    IN  Sum[NSteps] + Len(joinable)

\* A variant of line 106 that returns a task's Err from run.
JoinedResultPropagated(res) == IF res = "Err" THEN "Err" ELSE "none"

\* run, line 106: the task's result, Ok or Err, is printed; run returns
\* nothing because of it.
JoinedResult(res) == "none"

\* run, lines 105-106: join_next returns the oldest completed task; its
\* result is printed and the loop rescans.
JoinNext ==
    /\ pc = "join"
    /\ joinable # <<>>
    /\ joinable' = Tail(joinable)
    /\ joinedErr' = (joinedErr \/ Head(joinable) = "Err")
    /\ result' = JoinedResult(Head(joinable))
    /\ pc' = IF JoinedResult(Head(joinable)) = "none" THEN "remaining" ELSE "returned"
    /\ UNCHANGED <<steps, status, proc, queued, idx, remaining, completed,
                   available, started, outcome, pumpVars, cfgVars>>

\* run, lines 107 and 111: join_next returns None on an empty JoinSet; the
\* loop breaks and run returns Ok(()).
JoinNone ==
    /\ pc = "join"
    /\ JoinSetLen = 0
    /\ pc' = "returned"
    /\ result' = "Ok"
    /\ UNCHANGED <<steps, status, proc, queued, joinable, idx, remaining,
                   completed, available, started, outcome, joinedErr,
                   pumpVars, cfgVars>>

\* pipelineadm after execute_steps returned Ok (pipeline.rs, lines 118-122;
\* pipelineadm.rs, line 15): the run zone is cleaned up and deleted, run
\* returns Ok or the error of the two, and main returns it: the process
\* exits with 0 on Ok and with 1 on Err.
MainExit(teardown) ==
    /\ pc = "returned"
    /\ pc' = "exited"
    /\ exitStatus' = IF teardown = "Ok" THEN 0 ELSE 1
    /\ UNCHANGED <<steps, status, proc, queued, joinable, idx, remaining, completed,
                   available, started, outcome, runVars, pumpVars,
                   draft, file, validated, loaded, runInput, valVars, hostVars>>

(* ------------------------------ step tasks ---------------------------- *)

\* InnerRunnableStep::run, line 47.
StartStatus == "Pending"

\* InnerRunnableStep::run, line 80: the status after select!, whatever
\* branch ended it.
EndStatus(how) == "Finished"

\* A task takes the write lock and enters InnerRunnableStep::run (lines
\* 46-58): the status is assigned and pzone.exec spawns the child.
TaskStartOk(i) ==
    /\ queued[i] > 0
    /\ ~WriteLocked(i)
    /\ queued' = [queued EXCEPT ![i] = @ - 1]
    /\ status' = [status EXCEPT ![i] = StartStatus]
    /\ proc' = [proc EXCEPT ![i] = "running"]
    /\ started' = [started EXCEPT ![i] = TRUE]
    /\ UNCHANGED <<steps, joinable, supVars, outcome, runVars, pumpVars, cfgVars>>

\* The same with pzone.exec refusing to spawn (lines 46-51): `?` returns
\* the error, the lock is released and the task completes with Err.
TaskStartSpawnErr(i) ==
    /\ queued[i] > 0
    /\ ~WriteLocked(i)
    /\ JoinSetLen <= MaxRefusedLen
    /\ queued' = [queued EXCEPT ![i] = @ - 1]
    /\ status' = [status EXCEPT ![i] = StartStatus]
    /\ joinable' = Append(joinable, "Err")
    /\ outcome' = [outcome EXCEPT ![i] = "refused"]
    /\ UNCHANGED <<steps, proc, supVars, started, runVars, pumpVars, cfgVars>>

\* select! completes with the branch that is ready first (lines 60-78):
\* end-of-file on the child's stdout or stderr ("eof"), or child.wait()
\* with exit code 0 or not.  Then line 80 assigns the status, run returns
\* Ok(()), the lock is released and the task completes.
TaskFinish(i, how) ==
    /\ proc[i] = "running"
    /\ status' = [status EXCEPT ![i] = EndStatus(how)]
    /\ proc' = [proc EXCEPT ![i] = "none"]
    /\ joinable' = Append(joinable, "Ok")
    /\ outcome' = [outcome EXCEPT ![i] = how]
    /\ UNCHANGED <<steps, queued, supVars, started, runVars, pumpVars, cfgVars>>

(* ------------------------------ specification ------------------------- *)

Next ==
    \/ ScanRemaining
    \/ ScanCompleted
    \/ ScanAvailable
    \/ SpawnAll
    \/ JoinNext
    \/ JoinNone
    \/ \E i \in StepIds : TaskStartOk(i)
    \/ \E i \in StepIds : TaskStartSpawnErr(i)
    \/ \E i \in StepIds : \E how \in {"eof", "exit0", "exit1"} : TaskFinish(i, how)
    \/ \E teardown \in {"Ok", "Err"} : MainExit(teardown)

Spec == Init /\ [][Next]_vars


\* The runtime polls every spawned task, a child that was started closes
\* its pipes or exits, and the supervisor's own future is polled.
Fairness ==
    /\ WF_vars(ScanRemaining)
    /\ WF_vars(ScanCompleted)
    /\ WF_vars(ScanAvailable)
    /\ WF_vars(SpawnAll)
    /\ WF_vars(JoinNext)
    /\ WF_vars(JoinNone)
    /\ \A i \in StepIds : WF_vars(TaskStartOk(i) \/ TaskStartSpawnErr(i))
    /\ \A i \in StepIds : WF_vars(\E how \in {"eof", "exit0", "exit1"} : TaskFinish(i, how))

FairSpec == Init /\ [][Next]_vars /\ Fairness

(* ------------------------------ dependency relation ------------------- *)

\* The steps that step i names in its depends.
DirectDeps(i) == {j \in StepIds : steps[j].name \in steps[i].depends}

\* The steps that step i depends on, directly or through other steps.
TransDeps(i) ==
    LET R[k \in 0..NSteps] ==
            IF k = 0 THEN DirectDeps(i)
            ELSE R[k - 1] \cup UNION {DirectDeps(j) : j \in R[k - 1]}
    IN  R[NSteps]

\* This step of the supervisor spawns a task for step i.
Spawned(i) == queued'[i] > queued[i]

\* This step of a task starts step i's script.
Executes(i) == proc[i] = "none" /\ proc'[i] = "running"

\* The supervisor waits in a scan for the read lock of a step whose task
\* holds the write lock.
ScanBlocked == pc \in {"remaining", "completed", "available"} /\ WriteLocked(idx)

\* Step i is Pending and the steps it depends on are all Finished.
Ready(i) == status[i] = "Pending" /\ \A a \in DirectDeps(i) : status[a] = "Finished"

\* Step i failed: its child exited non-zero or its spawn was refused.
HasFailed(i) == outcome[i] \in {"exit1", "refused"}

Rank(s) == CASE s = "Pending" -> 0 [] s = "Running" -> 1 [] OTHER -> 2

(* ------------------------------ output pumps -------------------------- *)

\* Sequence a is a prefix of sequence b.
IsPrefix(a, b) == Len(a) <= Len(b) /\ SubSeq(b, 1, Len(a)) = a

\* A variant of the pump that puts the newest line first.
ForwardNewestFirst(forwarded, line) == <<line>> \o forwarded

\* println! of one line (lines 63 and 70): the line follows those already
\* forwarded for the stream.
Forward(forwarded, line) == Append(forwarded, line)

\* What reader.next_line().await gives for stream s (lines 62 and 69): the
\* oldest unread line, an error on a line that is not UTF-8, None at
\* end-of-file (pipe empty and closed), and nothing yet otherwise.
NextLine(s) ==
    IF pipe[s] # <<>>
    THEN IF Head(pipe[s]) = BadLine THEN "Err" ELSE "Some"
    ELSE IF open[s] THEN "Pending" ELSE "None"

\* select! is pending: no branch has completed (lines 60-78).
Selecting == ended = "none"

\* select! completes with one branch and line 80 assigns the status.
EndSelect(how) ==
    /\ ended' = how
    /\ status' = [status EXCEPT ![RunStep] = EndStatus(how)]

pumpEngineVars == <<steps, proc, queued, joinable, supVars, started, outcome, runVars>>

\* The child writes its next line, valid UTF-8 or not, to stream s.
ChildWrite(s, bad) ==
    /\ alive
    /\ open[s]
    /\ Len(wrote[s]) < MaxLines
    /\ LET line == IF bad THEN BadLine ELSE Len(wrote[s]) + 1
       IN  /\ wrote' = [wrote EXCEPT ![s] = Append(@, line)]
           /\ pipe' = [pipe EXCEPT ![s] = Append(@, line)]
    /\ UNCHANGED <<sink, open, alive, ended, status, pumpEngineVars, cfgVars>>

\* The running script closes its stream s.
ChildClose(s) ==
    /\ alive
    /\ open[s]
    /\ open' = [open EXCEPT ![s] = FALSE]
    /\ UNCHANGED <<pipe, wrote, sink, alive, ended, status, pumpEngineVars, cfgVars>>

\* The child exits; its ends of both pipes are closed.
ChildExit ==
    /\ alive
    /\ alive' = FALSE
    /\ open' = [s \in Streams |-> FALSE]
    /\ UNCHANGED <<pipe, wrote, sink, ended, status, pumpEngineVars, cfgVars>>

\* A pump reads a line and forwards it (lines 62-63, 69-70).
PumpLine(s) ==
    /\ Selecting
    /\ NextLine(s) = "Some"
    /\ sink' = [sink EXCEPT ![s] = Forward(@, Head(pipe[s]))]
    /\ pipe' = [pipe EXCEPT ![s] = Tail(@)]
    /\ UNCHANGED <<wrote, open, alive, ended, status, pumpEngineVars, cfgVars>>

\* A pump's read fails: `?` ends the branch's block with the error, the
\* branch completes and with it select! (lines 61-62, 66; 68-69, 73).
PumpErr(s) ==
    /\ Selecting
    /\ NextLine(s) = "Err"
    /\ pipe' = [pipe EXCEPT ![s] = Tail(@)]
    /\ EndSelect("ioerr")
    /\ UNCHANGED <<wrote, sink, open, alive, pumpEngineVars, cfgVars>>

\* A pump reads end-of-file: its loop ends, the branch completes and with
\* it select! (lines 62-66, 69-73).
PumpEof(s) ==
    /\ Selecting
    /\ NextLine(s) = "None"
    /\ EndSelect("eof")
    /\ UNCHANGED <<pipe, wrote, sink, open, alive, pumpEngineVars, cfgVars>>

\* child.wait() completes: that branch completes select! (lines 75-77).
WaitDone ==
    /\ Selecting
    /\ ~alive
    /\ EndSelect("exit")
    /\ UNCHANGED <<pipe, wrote, sink, open, alive, pumpEngineVars, cfgVars>>

PumpInit == EngineIdle /\ PumpIdle /\ CfgIdle

PumpNext ==
    \/ \E s \in Streams : \E bad \in BOOLEAN : ChildWrite(s, bad)
    \/ \E s \in Streams : ChildClose(s)
    \/ ChildExit
    \/ \E s \in Streams : PumpLine(s)
    \/ \E s \in Streams : PumpErr(s)
    \/ \E s \in Streams : PumpEof(s)
    \/ WaitDone

PumpSpec == PumpInit /\ [][PumpNext]_vars

\* Every line the child wrote to stream s is valid UTF-8.
AllLinesGood(s) == \A k \in 1..Len(wrote[s]) : wrote[s][k] # BadLine

\* This step gives the followed step its terminal status.
BecomesFinished == status[RunStep] # "Finished" /\ status'[RunStep] = "Finished"

(* ------------------------------ validation ---------------------------- *)

\* The elements of a sequence.
Range(seq) == {seq[k] : k \in 1..Len(seq)}

\* A variant of Dependency::validate without the look-up in step_names.
DependencyValidateUnchecked(dep, step_names) == dep # Unset

\* Dependency::validate is Ok: the name is set and step_names contains it.
DependencyValidate(dep, step_names) == dep # Unset /\ dep \in step_names

\* Step::validate is Ok: name and script are set and every dependency
\* validates.
StepValidate(st, step_names) ==
    /\ st.name # Unset
    /\ st.script # Unset
    /\ \A k \in 1..Len(st.depends) : DependencyValidate(st.depends[k], step_names)

\* Steps::validate.  Lines 82-86 collect the names into a HashSet, equal
\* names collapsing into one element, and fail on an unset name; lines
\* 87-91 validate every step against that set; line 92 wraps the validated
\* steps, in the draft's order.
StepsValidate(d) ==
    IF \E k \in 1..Len(d) : d[k].name = Unset
    THEN Err
    ELSE LET step_names == {d[k].name : k \in 1..Len(d)}
         IN  IF \A k \in 1..Len(d) : StepValidate(d[k], step_names)
             THEN Ok([k \in 1..Len(d) |->
                        [name |-> d[k].name,
                         script |-> d[k].script,
                         depends |-> [j \in 1..Len(d[k].depends) |-> d[k].depends[j]]]])
             ELSE Err

\* Two steps of vec have the same name.
HasDuplicateName(vec) ==
    \E i, j \in 1..Len(vec) :
        i # j /\ vec[i].name # Unset /\ vec[i].name = vec[j].name

\* Some step of vec names a dependency that is no step's name.
HasUnknownDependency(vec) ==
    \E i \in 1..Len(vec) : \E dep \in Range(vec[i].depends) :
        dep # Unset /\ \A j \in 1..Len(vec) : vec[j].name # dep

\* The pairs <<i, j>> with step i of vec depending, through one or more
\* dependencies, on step j.
DependsOnClosure(vec) ==
    LET direct == {e \in (1..Len(vec)) \X (1..Len(vec)) :
                      vec[e[2]].name # Unset /\ vec[e[2]].name \in Range(vec[e[1]].depends)}
        R[n \in 0..Len(vec)] ==
            IF n = 0 THEN direct
            ELSE R[n - 1] \cup
                 {e \in (1..Len(vec)) \X (1..Len(vec)) :
                     \E m \in 1..Len(vec) : <<e[1], m>> \in R[n - 1] /\ <<m, e[2]>> \in direct}
    IN  R[Len(vec)]

\* Some step of vec depends on itself, directly or through other steps.
HasCycle(vec) == \E i \in 1..Len(vec) : <<i, i>> \in DependsOnClosure(vec)

\* Every name and script of the draft is set.
AllSet(d) ==
    \A k \in 1..Len(d) :
        d[k].name # Unset /\ d[k].script # Unset /\ Unset \notin Range(d[k].depends)

(* ------------------------------ persistence --------------------------- *)

\* The XML text of one step: its name and script attributes and one
\* depend element per dependency.
SerializeStep(st) ==
    <<Tok("step", st.name), Tok("script", st.script)>>
        \o [k \in 1..Len(st.depends) |-> Tok("depend", st.depends[k])]
        \o <<Tok("/step", 0)>>

\* serde_xml_rs::to_writer of a pipeline (steps only): the root element
\* around the steps' elements, in order.
Serialize(vec) ==
    LET S[n \in 0..Len(vec)] ==
            IF n = 0 THEN <<>> ELSE S[n - 1] \o SerializeStep(vec[n])
    IN  <<Tok("pipeline", 0)>> \o S[Len(vec)] \o <<Tok("/pipeline", 0)>>

\* Every pipeline with its XML text.
Documents == {[vec |-> vec, text |-> Serialize(vec)] : vec \in StoredSteps}

\* ValidatedPipeline::save: the file is opened with write and create,
\* neither truncate nor append, and the text is written from offset 0; what
\* the file held beyond the text's length stays.
Save(f, vec) ==
    LET text == Serialize(vec)
    IN  [exists |-> TRUE,
         bytes |-> text \o SubSeq(f.bytes, Len(text) + 1, Len(f.bytes))]

\* serde_xml_rs::from_reader into ValidatedPipeline.  The document is the
\* root element at the start of the text.  ValidatedSteps.vec is not
\* #[serde(default)]: without a step element the field is missing and the
\* result is Err.  When text follows the root element, a parser that reads
\* to the end of the input (strict) fails on it, one that stops at the
\* root's end does not.
Deserialize(bytes, strict) ==
    LET docs == {doc \in Documents : IsPrefix(doc.text, bytes)}
    IN  IF docs = {} THEN Err
        ELSE LET doc == CHOOSE d \in docs : TRUE
             IN  IF Len(doc.vec) = 0 THEN Err
                 ELSE IF strict /\ Len(bytes) > Len(doc.text) THEN Err
                 ELSE Ok(doc.vec)

\* ValidatedPipeline::load: Ok(None) when the file cannot be opened, else
\* the deserialized content; nothing is validated.
Load(f, strict) == IF f.exists THEN Deserialize(f.bytes, strict) ELSE OkNone

\* What a pipeline file can hold when a session starts: nothing, or the
\* text of some pipeline written by hand or saved before.
FileContents ==
    {[exists |-> FALSE, bytes |-> <<>>]}
        \cup {[exists |-> TRUE, bytes |-> doc.text] : doc \in Documents}

(* ------------------------------ cicfg and pipelineadm ----------------- *)

\* cicfg's commit (config/mod.rs, lines 62-71): the draft is validated; an
\* accepted pipeline is saved and applied, and apply runs its steps.
Commit ==
    LET r == StepsValidate(draft)
    IN  /\ validated' = r
        /\ IF r.kind = "Ok"
           THEN /\ file' = Save(file, r.vec)
                /\ runInput' = [kind |-> "Ok", vec |-> r.vec, by |-> "commit"]
           ELSE UNCHANGED <<file, runInput>>
        /\ loaded' = NoResult
        /\ UNCHANGED <<draft, engineVars, pumpVars, valVars, exitStatus, hostVars>>

\* pipelineadm's main: the pipeline file is loaded and the pipeline run.
\* An Err of load or of run is returned from main, exit status 1; Ok(None)
\* of load panics in expect, exit status 101; Ok of run gives 0.
PipelineAdm(strict, ran) ==
    LET r == Load(file, strict)
    IN  /\ loaded' = r
        /\ runInput' = IF r.kind = "Ok"
                       THEN [kind |-> "Ok", vec |-> r.vec, by |-> "pipelineadm"]
                       ELSE runInput
        /\ exitStatus' = CASE r.kind = "None" -> 101
                            [] r.kind = "Err" -> 1
                            [] OTHER -> IF ran = "Ok" THEN 0 ELSE 1
        /\ UNCHANGED <<draft, file, validated, engineVars, pumpVars, valVars, hostVars>>

CfgInit ==
    /\ EngineIdle
    /\ PumpIdle
    /\ ValIdle
    /\ HostIdle
    /\ exitStatus = NotExited
    /\ draft \in Drafts
    /\ file \in FileContents
    /\ validated = NoResult
    /\ loaded = NoResult
    /\ runInput = NoRun

CfgNext ==
    \/ Commit
    \/ \E strict \in BOOLEAN : \E ran \in {"Ok", "Err"} : PipelineAdm(strict, ran)

CfgSpec == CfgInit /\ [][CfgNext]_vars

(* ------------------------------ validate and degrade ------------------ *)

\* A variant of Repo::validate that accepts an unset url.
RepoValidateAny(r) == TRUE

\* Repo::validate is Ok: url is set.
RepoValidate(r) == r.url # Unset

\* Package::validate is Ok: name and provider are set.
PackageValidate(pk) == pk.name # Unset /\ pk.provider # Unset

\* Pipeline::validate on the pipeline p with steps d: the name, then the
\* repos, the packages and the steps; the first error is returned.
PipelineValidate(p, d) ==
    IF p.name = Unset THEN ErrPipeline
    ELSE IF \E k \in 1..Len(p.repos) : ~RepoValidate(p.repos[k]) THEN ErrPipeline
    ELSE IF \E k \in 1..Len(p.packages) : ~PackageValidate(p.packages[k]) THEN ErrPipeline
    ELSE IF StepsValidate(d).kind = "Err" THEN ErrPipeline
    ELSE [kind |-> "Ok",
          name |-> p.name,
          repos |-> [k \in 1..Len(p.repos) |-> [url |-> p.repos[k].url]],
          packages |-> [k \in 1..Len(p.packages) |->
                          [provider |-> p.packages[k].provider,
                           name |-> p.packages[k].name]],
          steps |-> StepsValidate(d).vec]

\* A variant of ValidatedStep::as_step that leaves depends empty.
AsStepWithoutDepends(st) == [name |-> st.name, script |-> st.script, depends |-> <<>>]

\* ValidatedStep::as_step: every field Set to the validated value.
AsStep(st) ==
    [name |-> st.name,
     script |-> st.script,
     depends |-> [j \in 1..Len(st.depends) |-> st.depends[j]]]

\* ValidatedSteps::as_steps.
AsSteps(vec) == [k \in 1..Len(vec) |-> AsStep(vec[k])]

\* ValidatedPipeline::as_pipeline without the steps: name, as_repos,
\* as_packages.
AsPipeline(v) ==
    [name |-> v.name,
     repos |-> [k \in 1..Len(v.repos) |-> [url |-> v.repos[k].url]],
     packages |-> [k \in 1..Len(v.packages) |->
                     [provider |-> v.packages[k].provider, name |-> v.packages[k].name]]]

\* Every required field of the draft is Set.
AllRequiredSet ==
    /\ pipeline.name # Unset
    /\ \A k \in 1..Len(pipeline.repos) : pipeline.repos[k].url # Unset
    /\ \A k \in 1..Len(pipeline.packages) :
          pipeline.packages[k].name # Unset /\ pipeline.packages[k].provider # Unset
    /\ AllSet(draft)

\* Pipeline::load_or_create with a stored pipeline: the session's draft is
\* its as_pipeline().
Degrade ==
    /\ stored.kind = "Ok"
    /\ pipeline' = AsPipeline(stored)
    /\ draft' = AsSteps(stored.steps)
    /\ stored' = [stored EXCEPT !.kind = "Degraded"]
    /\ vpipeline' = NoPipeline
    /\ UNCHANGED <<engineVars, pumpVars, file, validated, loaded, runInput, exitStatus,
                   hostVars>>

\* Pipeline::validate on the session's draft.
Validate ==
    /\ vpipeline' = PipelineValidate(pipeline, draft)
    /\ UNCHANGED <<engineVars, pumpVars, file, validated, loaded, runInput, exitStatus,
                   pipeline, draft, stored, hostVars>>

\* A session on any draft, or one about to start from a stored pipeline.
ValInit ==
    /\ EngineIdle
    /\ PumpIdle
    /\ HostIdle
    /\ exitStatus = NotExited
    /\ file = [exists |-> FALSE, bytes |-> <<>>]
    /\ validated = NoResult
    /\ loaded = NoResult
    /\ runInput = NoRun
    /\ vpipeline = NoPipeline
    /\ \/ stored = NoPipeline /\ pipeline \in PipelineDrafts /\ draft \in Drafts
       \/ stored \in StoredPipelines /\ pipeline = NewPipeline /\ draft = <<>>

ValNext == Degrade \/ Validate

ValSpec == ValInit /\ [][ValNext]_vars

(* ------------------------------ provisioning -------------------------- *)

\* zone::Adm::halt_blocking on a zone in state s (zones.rs line 71,
\* main.rs lines 365-370): a running zone becomes installed.
HaltedStillRunning(s) == s

\* zone::Adm::halt_blocking on a zone in state s.
Halted(s) == IF s = "running" THEN "installed" ELSE s

\* The invocation in progress is at the call named l.
At(l) == op # "none" /\ ret = "none" /\ Stages(op)[stage] = l

\* The call returned Ok: the next call follows; after the last one the
\* invocation returns Ok.
Proceed ==
    /\ execIn' = IF At("steps") THEN execIn \cup {Target(op)} ELSE execIn
    /\ IF stage = Len(Stages(op))
       THEN /\ ret' = "Ok"
            /\ ends' = IF op = "apply"
                       THEN Append(ends, [dataset |-> dataset', vnic |-> vnic'["base"],
                                          zone |-> zone'["base"]])
                       ELSE ends
            /\ UNCHANGED stage
       ELSE /\ stage' = stage + 1
            /\ UNCHANGED <<ret, ends>>
    /\ UNCHANGED <<op, before, calls, runIds, engineVars, pumpVars, draft, file, validated,
                   loaded, runInput, valVars, exitStatus, replVars>>

\* The call returned Err: `?` returns it from the invocation at once.
Raise ==
    /\ ret' = "Err"
    /\ UNCHANGED <<execIn, stage, ends, op, before, calls, runIds, engineVars, pumpVars,
                   draft, file, validated, loaded, runInput, valVars, exitStatus,
                   replVars>>

\* PipelineZone::get_run_pzone: the run zone's id is the same string
\* whatever run_id was generated.
GetRunPzone(run_id) == FixedRunId

\* cicfg's commit calls apply, pipelineadm calls run; run generates
\* run_id, any string of generate_run_id, and takes its zone from
\* get_run_pzone.
Invoke(o, run_id) ==
    /\ op = "none" \/ ret # "none"
    /\ calls < MaxInvocations
    /\ op' = o
    /\ stage' = 1
    /\ ret' = "none"
    /\ before' = [vnic |-> vnic, zone |-> zone]
    /\ calls' = calls + 1
    /\ runIds' = IF o = "run" THEN Append(runIds, GetRunPzone(run_id)) ELSE runIds
    /\ UNCHANGED <<dataset, vnic, zone, execIn, ends, engineVars, pumpVars, draft,
                   file, validated, loaded, runInput, valVars, exitStatus, replVars>>

\* ensure_dataset_exists: zfs list, then zfs create unless the dataset
\* exists; a zfs that cannot be run or a failing create is an Err.
EnsureDatasetExists(ok) ==
    /\ At("dataset")
    /\ UNCHANGED <<vnic, zone>>
    /\ IF ok THEN dataset' = TRUE /\ Proceed ELSE UNCHANGED dataset /\ Raise

\* PipelineZone::cleanup: a listed zone that is running is halted, one that
\* is then installed is uninstalled; fails names the call that fails.
Cleanup(fails) ==
    LET z == Target(op)
        running == fails # "list" /\ zone[z] = "running"
        halted == IF running /\ fails # "halt" THEN Halted(zone[z]) ELSE zone[z]
        state == IF running /\ fails # "halt" THEN "installed" ELSE zone[z]
        uninstalls == fails \notin {"list", "halt"} /\ state = "installed"
        failed == \/ fails = "list"
                  \/ running /\ fails = "halt"
                  \/ uninstalls /\ fails = "uninstall"
    IN  /\ At("cleanup")
        /\ fails = "halt" => zone[z] = "running"
        /\ fails = "uninstall" => uninstalls
        /\ zone' = [zone EXCEPT ![z] = IF uninstalls /\ fails # "uninstall"
                                       THEN IF halted = "installed" THEN "configured"
                                                                    ELSE halted
                                       ELSE halted]
        /\ IF failed THEN Raise ELSE Proceed
        /\ UNCHANGED <<dataset, vnic>>

\* dladm::ensure_nic_exists: dladm show-vnic, then dladm create-vnic unless
\* the VNIC exists. The exit status of create-vnic is not read: made tells
\* whether it created the VNIC. ok is false when dladm cannot be run.
EnsureNicExists(ok, made) ==
    LET z == Target(op)
    IN  /\ At("nic")
        /\ UNCHANGED <<dataset, zone>>
        /\ vnic[z] => made
        /\ IF ok
           THEN vnic' = [vnic EXCEPT ![z] = made] /\ Proceed
           ELSE UNCHANGED vnic /\ Raise

\* configure_zone_with_default_config: zonecfg create with overwrite; it
\* replaces the configuration of a zone that is not installed.
ConfigureZone(ok) ==
    LET z == Target(op)
    IN  /\ At("configure")
        /\ UNCHANGED <<dataset, vnic>>
        /\ IF ok /\ zone[z] \in {"absent", "configured"}
           THEN zone' = [zone EXCEPT ![z] = "configured"] /\ Proceed
           ELSE UNCHANGED zone /\ Raise

\* zone::Adm::install_blocking: zoneadm verifies the configuration, the
\* net resource included, and installs a configured zone.
InstallZone(ok) ==
    LET z == Target(op)
    IN  /\ At("install")
        /\ UNCHANGED <<dataset, vnic>>
        /\ IF ok /\ zone[z] = "configured" /\ vnic[z]
           THEN zone' = [zone EXCEPT ![z] = "installed"] /\ Proceed
           ELSE UNCHANGED zone /\ Raise

\* zone::Adm::clone_blocking: the configured run zone is installed as a
\* copy of the base zone, which must be installed and not running.
CloneZone(ok) ==
    LET z == Target(op)
    IN  /\ At("clone")
        /\ UNCHANGED <<dataset, vnic>>
        /\ IF ok /\ zone[z] = "configured" /\ vnic[z] /\ zone["base"] = "installed"
           THEN zone' = [zone EXCEPT ![z] = "installed"] /\ Proceed
           ELSE UNCHANGED zone /\ Raise

\* zone::Adm::boot_blocking: an installed zone becomes running.
BootZone(ok) ==
    LET z == Target(op)
    IN  /\ At("boot")
        /\ UNCHANGED <<dataset, vnic>>
        /\ IF ok /\ zone[z] = "installed" /\ vnic[z]
           THEN zone' = [zone EXCEPT ![z] = "running"] /\ Proceed
           ELSE UNCHANGED zone /\ Raise

\* configure_zone_networking, Packages::install and Repos::clone: commands
\* run in the zone through zlogin; their exit statuses are not read, an Err
\* is a zlogin that cannot be spawned or waited for.
ZoneExec(ok) ==
    /\ At("networking") \/ At("packages") \/ At("repos")
    /\ UNCHANGED <<dataset, vnic, zone>>
    /\ IF ok THEN Proceed ELSE Raise

\* execute_steps: the pipeline's steps are run in the zone of the
\* invocation; RunnableSteps::run returns Ok.
ExecuteSteps ==
    /\ At("steps")
    /\ UNCHANGED <<dataset, vnic, zone>>
    /\ Proceed

\* halt_zone: the zone is halted.
HaltZone(ok) ==
    LET z == Target(op)
    IN  /\ At("halt")
        /\ UNCHANGED <<dataset, vnic>>
        /\ IF ok
           THEN zone' = [zone EXCEPT ![z] = Halted(zone[z])] /\ Proceed
           ELSE UNCHANGED zone /\ Raise

\* PipelineZone::delete: zonecfg delete removes the configuration of a zone
\* that is not installed.
DeleteZone(ok) ==
    LET z == Target(op)
    IN  /\ At("delete")
        /\ UNCHANGED <<dataset, vnic>>
        /\ IF ok /\ zone[z] = "configured"
           THEN zone' = [zone EXCEPT ![z] = "absent"] /\ Proceed
           ELSE UNCHANGED zone /\ Raise

\* Any host: dataset, VNICs and zones in any state, no invocation made.
ProvInit ==
    /\ EngineIdle
    /\ PumpIdle
    /\ ValIdle
    /\ ReplIdle
    /\ exitStatus = NotExited
    /\ draft = <<>>
    /\ file = [exists |-> FALSE, bytes |-> <<>>]
    /\ validated = NoResult
    /\ loaded = NoResult
    /\ runInput = NoRun
    /\ dataset \in BOOLEAN
    /\ vnic \in [Zones -> BOOLEAN]
    /\ zone \in [Zones -> ZoneStates]
    /\ execIn = {}
    /\ op = "none"
    /\ stage = 1
    /\ ret = "none"
    /\ before = [vnic |-> vnic, zone |-> zone]
    /\ ends = <<>>
    /\ calls = 0
    /\ runIds = <<>>

ProvNext ==
    \/ \E o \in {"apply", "run"} : \E run_id \in RunIds : Invoke(o, run_id)
    \/ \E ok \in BOOLEAN : EnsureDatasetExists(ok)
    \/ \E fails \in {"none", "list", "halt", "uninstall"} : Cleanup(fails)
    \/ \E ok \in BOOLEAN : \E made \in BOOLEAN : EnsureNicExists(ok, made)
    \/ \E ok \in BOOLEAN : ConfigureZone(ok)
    \/ \E ok \in BOOLEAN : InstallZone(ok)
    \/ \E ok \in BOOLEAN : CloneZone(ok)
    \/ \E ok \in BOOLEAN : BootZone(ok)
    \/ \E ok \in BOOLEAN : ZoneExec(ok)
    \/ ExecuteSteps
    \/ \E ok \in BOOLEAN : HaltZone(ok)
    \/ \E ok \in BOOLEAN : DeleteZone(ok)

ProvSpec == ProvInit /\ [][ProvNext]_vars

(* ------------------------------ the cicfg session --------------------- *)

\* What the session does not touch.
replFrame == <<engineVars, pumpVars, provVars, validated, loaded, runInput, exitStatus,
               stored>>

\* The vec a frame of type ty points into.
Entities(ty) ==
    CASE ty = "repo" -> pipeline.repos
      [] ty = "package" -> pipeline.packages
      [] OTHER -> draft

\* The keys the set of a frame of type ty accepts.
KnownKeys(ty) ==
    CASE ty = "pipeline" -> {"name"}
      [] ty = "repo" -> {"url"}
      [] ty = "package" -> {"name", "provider"}
      [] OTHER -> {"name", "script", "depends"}

\* A variant of builder's Commit arm that returns the validation error.
OnCommitPropagate(kind, io) == IF kind = "Ok" /\ io = "Ok" THEN "prompt" ELSE "returned"

\* builder's Commit arm: an Err of save or apply is returned with `?`; a
\* validation error is printed and the loop goes on.
OnCommit(kind, io) == IF kind = "Ok" /\ io # "Ok" THEN "returned" ELSE "prompt"

\* The loop goes on after a command that returned Ok; an Err is returned from
\* builder by the `?` that follows the match.
Continue(cmd, key, res) ==
    /\ last' = [cmd |-> cmd, key |-> key, res |-> res]
    /\ repl' = IF res = "Ok" THEN "prompt" ELSE "returned"

\* CfgState::select: only from the pipeline's frame; the one element of
\* type ty that passes the filter is pushed. key = "none" is no filter.
ReplSelect(ty, key, value) ==
    LET vec == Entities(ty)
        matching == {k \in 1..Len(vec) :
                        \/ key = "none"
                        \/ key \in DOMAIN vec[k] \ {"depends"} /\ vec[k][key] = value}
    IN  /\ repl = "prompt"
        /\ value \in (IF key = "name" THEN DraftNames ELSE {1})
        /\ IF stack[Len(stack)].ty # "pipeline"
           THEN Continue("select", "none", "CannotSelect") /\ UNCHANGED stack
           ELSE IF ty = "other"
           THEN /\ repl' = "panicked"
                /\ last' = [cmd |-> "select", key |-> "none", res |-> "panic"]
                /\ UNCHANGED stack
           ELSE IF Cardinality(matching) = 1
           THEN /\ stack' = Append(stack, [ty |-> ty, ix |-> CHOOSE k \in matching : TRUE])
                /\ Continue("select", "none", "Ok")
           ELSE Continue("select", "none", "NoSingleMatch") /\ UNCHANGED stack
        /\ UNCHANGED <<draft, pipeline, vpipeline, file, applied, replFrame>>

\* A variant of Step::set that pushes the value to depends.
StepSetPushes(st, key, value) ==
    [st EXCEPT ![key] = IF key = "depends" THEN Append(@, value) ELSE value]

\* Step::set with a key the step has: name and script are Set to the
\* value; depends becomes Vec::new() whatever the value.
StepSet(st, key, value) ==
    [st EXCEPT ![key] = IF key = "depends" THEN <<>> ELSE value]

\* CfgState::set: the entity of the top frame sets the key; a key it does
\* not have is an Err.
ReplSet(key, value) ==
    LET top == stack[Len(stack)]
    IN  /\ repl = "prompt"
        /\ value \in (IF top.ty = "step" /\ key = "name" THEN DraftNames ELSE {1})
        /\ IF key \notin KnownKeys(top.ty)
           THEN Continue("set", key, "UnknownAttribute") /\ UNCHANGED <<draft, pipeline>>
           ELSE /\ Continue("set", key, "Ok")
                /\ CASE top.ty = "pipeline" ->
                          /\ pipeline' = [pipeline EXCEPT !.name = value]
                          /\ UNCHANGED draft
                     [] top.ty = "repo" ->
                          /\ pipeline' = [pipeline EXCEPT !.repos[top.ix][key] = value]
                          /\ UNCHANGED draft
                     [] top.ty = "package" ->
                          /\ pipeline' = [pipeline EXCEPT !.packages[top.ix][key] = value]
                          /\ UNCHANGED draft
                     [] OTHER ->
                          /\ draft' = [draft EXCEPT ![top.ix] = StepSet(@, key, value)]
                          /\ UNCHANGED pipeline
        /\ UNCHANGED <<stack, vpipeline, file, applied, replFrame>>

\* CfgState::add: from the pipeline's frame a default repo, package or step
\* is pushed to its vec and its frame to the stack; todo!() panics otherwise.
ReplAdd(ty) ==
    /\ repl = "prompt"
    /\ IF stack[Len(stack)].ty = "pipeline" /\ ty # "other"
       THEN /\ Len(Entities(ty)) < (CASE ty = "repo" -> MaxRepos
                                      [] ty = "package" -> MaxPackages
                                      [] OTHER -> MaxDraftSteps)
            /\ stack' = Append(stack, [ty |-> ty, ix |-> Len(Entities(ty)) + 1])
            /\ CASE ty = "repo" ->
                      /\ pipeline' = [pipeline EXCEPT
                                         !.repos = Append(@, [url |-> Unset])]
                      /\ UNCHANGED draft
                 [] ty = "package" ->
                      /\ pipeline' = [pipeline EXCEPT
                                         !.packages = Append(@, [provider |-> Unset,
                                                                 name |-> Unset])]
                      /\ UNCHANGED draft
                 [] OTHER ->
                      /\ draft' = Append(draft, [name |-> Unset, script |-> Unset,
                                                 depends |-> <<>>])
                      /\ UNCHANGED pipeline
            /\ Continue("add", "none", "Ok")
       ELSE /\ repl' = "panicked"
            /\ last' = [cmd |-> "add", key |-> "none", res |-> "panic"]
            /\ UNCHANGED <<stack, draft, pipeline>>
    /\ UNCHANGED <<vpipeline, file, applied, replFrame>>

\* A variant of CfgState::end that pops whatever the depth.
ReplEndAlways ==
    /\ repl = "prompt"
    /\ stack' = SubSeq(stack, 1, Len(stack) - 1)
    /\ Continue("end", "none", "Ok")
    /\ UNCHANGED <<draft, pipeline, vpipeline, file, applied, replFrame>>

\* CfgState::end: the top frame is popped unless it is the only one.
ReplEnd ==
    /\ repl = "prompt"
    /\ stack' = IF Len(stack) = 1 THEN stack ELSE SubSeq(stack, 1, Len(stack) - 1)
    /\ Continue("end", "none", "Ok")
    /\ UNCHANGED <<draft, pipeline, vpipeline, file, applied, replFrame>>

\* print, and a line that is no command: something is printed.
ReplReport(cmd) ==
    /\ repl = "prompt"
    /\ Continue(cmd, "none", "Ok")
    /\ UNCHANGED <<stack, draft, pipeline, vpipeline, file, applied, replFrame>>

\* commit: the draft is validated; a validated pipeline is saved and
\* applied, io telling which of the two fails if one does.
ReplCommit(io) ==
    LET r == PipelineValidate(pipeline, draft)
    IN  /\ repl = "prompt"
        /\ vpipeline' = r
        /\ file' = IF r.kind = "Ok" /\ io # "SaveErr" THEN Save(file, r.steps) ELSE file
        /\ applied' = (applied \/ (r.kind = "Ok" /\ io # "SaveErr"))
        /\ repl' = OnCommit(r.kind, io)
        /\ last' = [cmd |-> "commit", key |-> "none",
                    res |-> IF r.kind = "Ok" THEN io ELSE "ValidationError"]
        /\ UNCHANGED <<stack, draft, pipeline, replFrame>>

\* The stored step sets a session is loaded from here: steps named in
\* order, each depending on earlier ones only, and some step depending.
LoadedSteps ==
    {v \in StoredSteps :
        /\ \E k \in 1..Len(v) : v[k].depends # <<>>
        /\ \A k \in 1..Len(v) :
              /\ v[k].name = k
              /\ \A j \in 1..Len(v[k].depends) : v[k].depends[j] < k}

\* cicfg on a pipeline without a file: Pipeline::new; or on a pipeline
\* with a file: load_or_create makes the draft from the stored pipeline.
ReplInit ==
    /\ EngineIdle
    /\ PumpIdle
    /\ \/ CfgIdle
       \/ /\ HostIdle
          /\ exitStatus = NotExited
          /\ validated = NoResult
          /\ loaded = NoResult
          /\ runInput = NoRun
          /\ vpipeline = NoPipeline
          /\ \E v \in LoadedSteps :
                /\ stored = [NoPipeline EXCEPT !.kind = "Degraded",
                                               !.name = PipelineName, !.steps = v]
                /\ pipeline = AsPipeline(stored)
                /\ file = [exists |-> TRUE, bytes |-> Serialize(v)]
                /\ draft = AsSteps(v)

ReplNext ==
    \/ \E ty \in Types : \E key \in {"none"} \cup Keys : \E value \in DraftNames :
          ReplSelect(ty, key, value)
    \/ \E key \in Keys : \E value \in DraftNames : ReplSet(key, value)
    \/ \E ty \in Types : ReplAdd(ty)
    \/ ReplEnd
    \/ \E cmd \in {"print", "unrecognized"} : ReplReport(cmd)
    \/ \E io \in {"Ok", "SaveErr", "ApplyErr"} : ReplCommit(io)

ReplSpec == ReplInit /\ [][ReplNext]_vars

(* ------------------------------ claims -------------------------------- *)

\* C1: a task for step B is spawned only when every step B depends on has
\* status Finished.
C1_SpawnedOnlyWhenDepsFinished ==
    [][\A b \in StepIds :
          Spawned(b) => \A a \in DirectDeps(b) : status[a] = "Finished"]_vars

\* C2: no step's script is executed twice during one run.
C2_ExecutedAtMostOnce ==
    [][\A i \in StepIds : Executes(i) => ~started[i]]_vars

\* C3: no step that is Pending with all its dependencies Finished, and has
\* no task yet, waits while the supervisor's scan is blocked on the lock of
\* a step that is executing.
C3_ScanNeverBlocksReadyStep ==
    ~(ScanBlocked /\ \E r \in StepIds :
                        Ready(r) /\ queued[r] = 0 /\ ~WriteLocked(r))

\* C4: a step is Finished only if its child exited with code 0; a non-zero
\* exit code gives Failed.
C4_FinishedOnlyOnExitZero ==
    \A i \in StepIds :
        /\ status[i] = "Finished" => outcome[i] = "exit0"
        /\ (outcome[i] = "exit1" /\ ~WriteLocked(i)) => status[i] = "Failed"

\* C5: a step is never started when a step it transitively depends on has
\* failed (non-zero exit or refused spawn).
C5_FailureContainment ==
    [][\A d \in StepIds :
          Executes(d) => \A s \in TransDeps(d) : ~HasFailed(s)]_vars

\* C6: no step's status goes backward in Pending < Running < {Finished,
\* Failed}, and a Finished or Failed status never changes.
C6_StatusMonotonic ==
    [][\A i \in StepIds :
          /\ Rank(status'[i]) >= Rank(status[i])
          /\ status[i] \in {"Finished", "Failed"} => status'[i] = status[i]]_vars

\* C7: no step goes from Pending to Finished directly, and a step's status
\* is Running while its child executes.
C7_NoSkipFromPending ==
    [][\A i \in StepIds :
          /\ ~(status[i] = "Pending" /\ status'[i] = "Finished")
          /\ proc'[i] = "running" => status'[i] = "Running"]_vars

\* C8: when run has returned, every step is Finished or Failed, or is left
\* Pending because a step it transitively depends on failed.
C8_TerminalAtReturn ==
    pc = "returned" =>
        \A i \in StepIds :
            \/ status[i] \in {"Finished", "Failed"}
            \/ /\ status[i] = "Pending"
               /\ \E s \in TransDeps(i) : HasFailed(s) \/ status[s] = "Failed"

\* C9: under fair scheduling, with every started child ending, run
\* eventually returns.
C9_RunReturns == <>(pc = "returned")

\* C10: a step whose spawn was refused has status Failed and no task is
\* spawned for it again.
C10_RefusedIsFailed ==
    [][\A i \in StepIds :
          /\ outcome'[i] = "refused" => status'[i] = "Failed"
          /\ Spawned(i) => outcome[i] # "refused"]_vars

\* C11: run never returns an error: when it has returned, its result is Ok,
\* whatever children exited non-zero and whatever tasks ended with Err, and
\* every step whose dependencies are all Finished has run to Finished.
C11_RunNeverRaises ==
    pc = "returned" =>
        /\ result = "Ok"
        /\ \A i \in StepIds :
              \/ status[i] = "Finished"
              \/ \E a \in DirectDeps(i) : status[a] # "Finished"

\* run returned after a task's Err was joined and a child exited non-zero,
\* with every step run to its end.
C11_Witness ==
    /\ pc = "returned"
    /\ joinedErr
    /\ \E i \in StepIds : outcome[i] = "exit1"
    /\ \A i \in StepIds : status[i] = "Finished"

\* C12: when a step has its terminal status, the lines forwarded for each
\* stream are all the lines the child wrote to it (the child wrote only
\* valid lines).
C12_LinePreservation ==
    (status[RunStep] = "Finished" /\ \A s \in Streams : AllLinesGood(s))
        => \A s \in Streams : sink[s] = wrote[s]

\* C13: the lines forwarded for a stream are always a prefix, in order and
\* without repetition, of the lines the child wrote to it.
C13_ForwardedIsPrefix == \A s \in Streams : IsPrefix(sink[s], wrote[s])

\* Both streams carried MaxLines lines and all were forwarded before
\* select! ended.
C13_Witness ==
    /\ ~Selecting
    /\ \A s \in Streams : Len(sink[s]) = MaxLines /\ sink[s] = wrote[s]

\* C14: end-of-file on stdout or stderr does not give a step its terminal
\* status while its child still runs.
C14_FinishedOnlyAfterExit ==
    [][(BecomesFinished /\ ended' = "eof") => ~alive']_vars

\* C15: a read error on a pump does not give the step its terminal status
\* while the child still runs.
C15_ReadErrorAwaitsExit ==
    [][(Selecting /\ ended' = "ioerr") => ~(status'[RunStep] = "Finished" /\ alive')]_vars

\* C16: validation rejects a draft with two steps of the same name, and
\* the steps of an accepted pipeline have pairwise distinct names.
C16_DuplicateStepRejected ==
    validated.kind # "none" =>
        /\ HasDuplicateName(draft) => validated = Err
        /\ validated.kind = "Ok" => ~HasDuplicateName(validated.vec)

\* C17: validation rejects a draft with a dependency that names no step of
\* the draft, and every dependency of an accepted pipeline names one of its
\* steps.
C17_UnknownDependencyRejected ==
    validated.kind # "none" =>
        /\ HasUnknownDependency(draft) => validated = Err
        /\ validated.kind = "Ok" => ~HasUnknownDependency(validated.vec)

\* A draft with every value set and a dependency on a step that does not
\* exist was validated and rejected.
C17_Witness ==
    /\ AllSet(draft)
    /\ HasUnknownDependency(draft)
    /\ validated = Err

\* C18: validation rejects a draft whose dependencies form a cycle, a
\* step that depends on itself included, and commit never calls run on a
\* step set with a cycle.
C18_CycleRejected ==
    /\ validated.kind # "none" => (HasCycle(draft) => validated = Err)
    /\ (runInput.kind = "Ok" /\ runInput.by = "commit") => ~HasCycle(runInput.vec)

\* C19: the step set that pipelineadm loads and runs has distinct names,
\* dependencies that all name its steps, and no cycle.
C19_LoadedRunInputSound ==
    (runInput.kind = "Ok" /\ runInput.by = "pipelineadm") =>
        /\ ~HasDuplicateName(runInput.vec)
        /\ ~HasUnknownDependency(runInput.vec)
        /\ ~HasCycle(runInput.vec)

\* C20: a load that follows the save of an accepted pipeline returns that
\* pipeline, whatever the file held before the save.
C20_SaveLoadRoundTrip ==
    (validated.kind = "Ok" /\ loaded.kind # "none") => loaded = Ok(validated.vec)

\* C21: validate returns Ok or Err; it returns Ok exactly when every
\* required field of the draft is Set and every dependency names a step, and
\* then the validated pipeline holds the draft's values, the draft being as
\* it was.
C21_ValidateTotal ==
    vpipeline.kind # "none" =>
        /\ vpipeline.kind = "Ok" <=> (AllRequiredSet /\ ~HasUnknownDependency(draft))
        /\ vpipeline.kind = "Ok" =>
              AsPipeline(vpipeline) = pipeline /\ AsSteps(vpipeline.steps) = draft

\* A draft with a repo, a package and two steps, one depending on the
\* other, was validated and accepted.
C21_Witness ==
    /\ vpipeline.kind = "Ok"
    /\ Len(vpipeline.repos) = 1
    /\ Len(vpipeline.packages) = 1
    /\ Len(vpipeline.steps) = 2
    /\ \E k \in 1..2 : vpipeline.steps[k].depends # <<>>

\* C22: validating the draft that as_pipeline made of a validated pipeline
\* with distinct step names, known dependencies and no cycle succeeds and
\* gives that pipeline back.
C22_DegradeValidateRoundTrip ==
    (/\ stored.kind = "Degraded"
     /\ vpipeline.kind # "none"
     /\ ~HasDuplicateName(stored.steps)
     /\ ~HasUnknownDependency(stored.steps)
     /\ ~HasCycle(stored.steps))
        => vpipeline = [stored EXCEPT !.kind = "Ok"]

\* A stored pipeline with a repo, a package and two steps with a
\* dependency was degraded and validated again.
C22_Witness ==
    /\ stored.kind = "Degraded"
    /\ vpipeline.kind = "Ok"
    /\ Len(stored.repos) = 1
    /\ Len(stored.packages) = 1
    /\ Len(stored.steps) = 2
    /\ ~HasDuplicateName(stored.steps)
    /\ ~HasCycle(stored.steps)
    /\ \E k \in 1..2 : stored.steps[k].depends # <<>>

\* C23: on a step set without cycle, pipelineadm exits with status 0
\* exactly when every step ended Finished, and with status 1 when a step
\* failed.
C23_ExitStatusReflectsSteps ==
    (pc = "exited" /\ IsForward(steps)) =>
        /\ exitStatus = 0 <=> \A i \in StepIds : status[i] = "Finished"
        /\ (\E i \in StepIds : status[i] = "Failed" \/ HasFailed(i)) => exitStatus = 1

\* C24: when the pipeline file cannot be loaded, pipelineadm exits with
\* status 2.
C24_LoadFailureExitsTwo == loaded.kind \in {"None", "Err"} => exitStatus = 2

C26_FailureCleansUp ==
    ret = "Err" =>
        LET z == Target(op)
        IN  /\ zone[z] = "running" => before.zone[z] = "running"
            /\ vnic[z] => before.vnic[z]
            /\ zone[z] # "absent" => before.zone[z] # "absent"

\* C27: when run has returned, with Ok or with Err, the run zone it created
\* does not exist.
C27_RunZoneDisposed ==
    (op = "run" /\ ret # "none" /\ before.zone["run"] = "absent") =>
        zone["run"] = "absent"

\* C28: execute_steps is never called on the base zone.
C28_StepsOnlyInRunZone == "base" \notin execIn

\* C29: a commit whose validation fails writes nothing, calls no apply,
\* leaves the draft and the frame stack as they were and returns to the
\* prompt; a commit whose validation succeeds and whose save succeeds has
\* written the validated pipeline and called apply.
C29_CommitOnlyValidated ==
    [][last'.cmd = "commit" =>
          IF PipelineValidate(pipeline, draft).kind = "Ok"
          THEN last'.res # "SaveErr" =>
                  /\ file' = Save(file, PipelineValidate(pipeline, draft).steps)
                  /\ applied'
          ELSE /\ file' = file
               /\ applied' = applied
               /\ draft' = draft /\ pipeline' = pipeline
               /\ stack' = stack
               /\ repl' = "prompt"]_vars

\* A commit inside a step's frame was refused: nothing written or applied,
\* the session still at the prompt in that frame.
C29_Witness ==
    /\ last = [cmd |-> "commit", key |-> "none", res |-> "ValidationError"]
    /\ Len(stack) = 2 /\ stack[2].ty = "step"
    /\ Len(draft) >= 1
    /\ repl = "prompt"
    /\ ~applied /\ ~file.exists

\* C30: after a command refused with a validation error, the unknown key of
\* set included, the session is at the prompt with draft and stack intact.
C30_ValidationErrorKeepsRepl ==
    [][last'.res \in {"ValidationError", "UnknownAttribute"} =>
          /\ repl' = "prompt"
          /\ draft' = draft /\ pipeline' = pipeline
          /\ stack' = stack]_vars

\* C31: apply and create_zone_from_base configure a zone only when its VNIC
\* exists: ensure_nic_exists has returned an Err if the VNIC could not be
\* created.
C31_ConfigureOnlyOnVnic == At("configure") => vnic[Target(op)]

\* C32: no two invocations of run use the same run zone id (the zone's
\* name, VNIC name and path are made of it).
C32_FreshRunZone ==
    \A j, k \in 1..Len(runIds) : j # k => runIds[j] # runIds[k]

\* C33: when unblocked_steps returns Some(available), on a step set whose
\* dependencies point backwards, the steps returned are exactly the steps
\* that are Pending with every dependency Finished, and none of them is a
\* step a task has been spawned for and has not completed (the engine's
\* Running).
C33_ScanReturnsReady ==
    [][(pc = "available" /\ pc' = "spawn" /\ IsForward(steps)) =>
          /\ available' = {i \in StepIds : Ready(i)}
          /\ \A i \in available' : queued[i] = 0 /\ proc[i] = "none"]_vars

\* C34: unblocked_steps reports that the step set is done only when no step
\* is Pending or Running: on a step set whose dependencies point backwards,
\* a scan that returns None, its report of done, has left no such step; a
\* scan that only found nothing to start reports something else.
C34_NoneMeansDone ==
    [][(pc \in {"remaining", "available"} /\ pc' = "join" /\ IsForward(steps)) =>
          \A i \in StepIds : status[i] \notin {"Pending", "Running"}]_vars

\* C35: a task has been spawned for every step the scan returned when the
\* supervisor goes on to join_next; steps returned by one scan can so
\* execute at the same time.
C35_AllSpawnedBeforeJoin ==
    [][(pc = "spawn" /\ pc' = "join") =>
          \A i \in available : queued'[i] = queued[i] + 1]_vars

\* Two steps without dependencies, spawned after the same scan, both have
\* their script executing.
C35_Witness ==
    \E i, j \in StepIds :
        /\ i # j
        /\ steps[i].depends = {} /\ steps[j].depends = {}
        /\ proc[i] = "running" /\ proc[j] = "running"
        /\ \A k \in StepIds : outcome[k] = "none"

\* C36: under fair scheduling, on a step set with distinct names whose
\* dependencies point backwards, and unless a spawn is refused, a moment
\* comes at which every step is Finished.
C36_Progress ==
    IsForward(steps) =>
        <>(\/ \A i \in StepIds : status[i] = "Finished"
           \/ \E i \in StepIds : outcome[i] = "refused")

\* run has returned on a chain of dependencies, no spawn was refused and
\* every step is Finished.
C36_Witness ==
    /\ pc = "returned"
    /\ IsForward(steps)
    /\ \E i \in StepIds : steps[i].depends # {}
    /\ \A i \in StepIds : status[i] = "Finished" /\ outcome[i] \in {"eof", "exit0", "exit1"}

\* C37: as long as run has not returned, the supervisor or some task can
\* take a step.
C37_DeadlockFree == pc \notin {"returned", "exited"} => ENABLED Next

\* The supervisor's scan waits for the read lock of a step whose task holds
\* the write lock while its child executes; no other task is left and only
\* the end of that child lets anything proceed.
C37_Witness ==
    /\ ScanBlocked
    /\ \A i \in StepIds : queued[i] = 0 /\ (proc[i] = "running" => i = idx)
    /\ joinable = <<>>

\* C38: after every command that leaves the session at the prompt the frame
\* stack holds the pipeline's frame at the bottom and at most one frame
\* above it, and end on a stack of depth 1 leaves the stack as it is.
C38_FrameStack ==
    [][/\ repl' = "prompt" =>
            /\ Len(stack') \in 1..2
            /\ stack'[1] = PipelineFrame
            /\ Len(stack') = 2 => stack'[2].ty \in {"repo", "package", "step"}
       /\ (last'.cmd = "end" /\ Len(stack) = 1) => stack' = stack]_vars

\* end was given at depth 1, nothing having been added, and the session is
\* at the prompt in the pipeline's frame.
C38_Witness ==
    /\ last = [cmd |-> "end", key |-> "none", res |-> "Ok"]
    /\ draft = <<>> /\ pipeline = NewPipeline
    /\ stack = <<PipelineFrame>>
    /\ repl = "prompt"

\* C39: set of depends in a step's frame leaves that step with no
\* dependency and with its name and script, and the other steps as they
\* were; and after any command a step has a dependency only if it had the
\* same before the command.
C39_SetDependsEmpties ==
    [][/\ (last'.cmd = "set" /\ last'.key = "depends" /\ last'.res = "Ok") =>
            LET ix == stack[Len(stack)].ix
            IN  /\ draft'[ix] = [draft[ix] EXCEPT !.depends = <<>>]
                /\ \A k \in 1..Len(draft) : k # ix => draft'[k] = draft[k]
                /\ Len(draft') = Len(draft)
       /\ \A k \in 1..Len(draft') :
            draft'[k].depends # <<>> =>
                k <= Len(draft) /\ draft'[k].depends = draft[k].depends]_vars

\* A step loaded with a dependency has lost it by set of depends.
C39_Witness ==
    /\ last = [cmd |-> "set", key |-> "depends", res |-> "Ok"]
    /\ Len(stack) = 2 /\ stack[2].ty = "step"
    /\ stored.kind = "Degraded"
    /\ stack[2].ix <= Len(stored.steps)
    /\ stored.steps[stack[2].ix].depends # <<>>
    /\ draft[stack[2].ix].depends = <<>>
    /\ draft[stack[2].ix].name = stored.steps[stack[2].ix].name

=============================================================================
